---- MODULE Spec2Model ----
(***************************************************************************)
(* The temple finder of src/app/components/TempleFinder.tsx: the component *)
(* state (search term, four facet selections, sort order), the memoised    *)
(* values derived from it on every render (rankedTemples, insights,        *)
(* activeFilters) and the pure functions scoreTemple and matchesFilters.   *)
(*                                                                         *)
(* A JavaScript string is a sequence of one-character strings, so that     *)
(* toLowerCase, trim, join and includes are computed and not assumed.      *)
(* A score is kept in tenths (score 66.5 is 665): the only non-integer     *)
(* factor of the code is 0.7.                                              *)
(***************************************************************************)
EXTENDS Integers, Sequences, FiniteSets, TLC

VARIABLES
    catalog,             \* temples, the imported static catalog
    searchTerm,          \* useState('')
    selectedRegion,      \* useState(ALL_OPTION)
    selectedTradition,   \* useState(ALL_OPTION)
    selectedEnvironment, \* useState(ALL_OPTION)
    selectedFeature,     \* useState(ALL_OPTION)
    sortOrder,           \* useState('relevance')
    rankedTemples,       \* useMemo: the scored, filtered, sorted result list
    insights,            \* useMemo: aggregate statistics over rankedTemples
    activeFilters        \* useMemo: the tags of the selections that are set

vars == <<catalog, searchTerm, selectedRegion, selectedTradition,
          selectedEnvironment, selectedFeature, sortOrder, rankedTemples,
          insights, activeFilters>>

---------------------------------------------------------------------------
(* Bounds of the model *)

\* longest catalog explored by Spec
MaxCatalog == 2

\* longest generated temple name and typed search term explored by SpecScore
MaxLen == 2

---------------------------------------------------------------------------
(* JavaScript strings *)

UpperChars ==
    <<"A", "B", "C", "D", "E", "F", "G", "H", "I", "J", "K", "L", "M",
      "N", "O", "P", "Q", "R", "S", "T", "U", "V", "W", "X", "Y", "Z">>

LowerChars ==
    <<"a", "b", "c", "d", "e", "f", "g", "h", "i", "j", "k", "l", "m",
      "n", "o", "p", "q", "r", "s", "t", "u", "v", "w", "x", "y", "z">>

\* the characters of the model in ascending UTF-16 code unit order
CodeOrder == <<" ", "-">> \o UpperChars \o LowerChars

codeOf ==
    [c \in {CodeOrder[i] : i \in 1..Len(CodeOrder)} |->
        CHOOSE i \in 1..Len(CodeOrder) : CodeOrder[i] = c]

charCode(c) == codeOf[c]

\* the lower-case letter of every upper-case letter
lowerOf ==
    [c \in {UpperChars[i] : i \in 1..Len(UpperChars)} |->
        LowerChars[CHOOSE i \in 1..Len(UpperChars) : UpperChars[i] = c]]

toLowerChar(c) == IF c \in DOMAIN lowerOf THEN lowerOf[c] ELSE c

\* String.prototype.toLowerCase
toLowerCase(s) == [i \in 1..Len(s) |-> toLowerChar(s[i])]

isWhiteSpace(c) == c = " "

RECURSIVE trimStart(_)
trimStart(s) ==
    IF s # <<>> /\ isWhiteSpace(Head(s)) THEN trimStart(Tail(s)) ELSE s

RECURSIVE trimEnd(_)
trimEnd(s) ==
    IF s # <<>> /\ isWhiteSpace(s[Len(s)])
    THEN trimEnd(SubSeq(s, 1, Len(s) - 1))
    ELSE s

\* String.prototype.trim
trim(s) == trimEnd(trimStart(s))

\* String.prototype.includes: needle occurs in hay as a contiguous run
includes(hay, needle) ==
    \E i \in 0..(Len(hay) - Len(needle)) :
        SubSeq(hay, i + 1, i + Len(needle)) = needle

\* Array.prototype.join over an array of strings
RECURSIVE join(_, _)
join(parts, sep) ==
    IF parts = <<>> THEN <<>>
    ELSE IF Len(parts) = 1 THEN parts[1]
    ELSE parts[1] \o sep \o join(Tail(parts), sep)

\* a < b in the order of the default Array.prototype.sort (code units)
RECURSIVE stringLess(_, _)
stringLess(a, b) ==
    IF b = <<>> THEN FALSE
    ELSE IF a = <<>> THEN TRUE
    ELSE IF Head(a) # Head(b) THEN charCode(Head(a)) < charCode(Head(b))
    ELSE stringLess(Tail(a), Tail(b))

\* the value of an absent entry ([0]?.[0], destructuring [undefined]): a
\* one-element sequence that is no string of characters
Undefined == <<"undefined">>

---------------------------------------------------------------------------
(* Module-level constants of TempleFinder.tsx *)

ALL_OPTION == <<"A", "l", "l">>

SortOptions == {"relevance", "oldest", "newest", "significance"}

\* a sequence without the elements that occurred earlier in it:
\* Array.from(new Set(values)) keeps first-seen order
RECURSIVE distinctInOrder(_)
distinctInOrder(values) ==
    IF values = <<>> THEN <<>>
    ELSE LET front == distinctInOrder(SubSeq(values, 1, Len(values) - 1))
             last == values[Len(values)]
         IN IF \E i \in 1..Len(front) : front[i] = last
            THEN front
            ELSE Append(front, last)

RECURSIVE flatten(_)
flatten(lists) ==
    IF lists = <<>> THEN <<>> ELSE Head(lists) \o flatten(Tail(lists))

---------------------------------------------------------------------------
(* Array.prototype.sort *)

\* rankComparator with the newest case copied from oldest and not turned
rankComparator_newestAscending(order, a, b) ==
    CASE order = "oldest" -> a.temple.founded - b.temple.founded
      [] order = "newest" -> a.temple.founded - b.temple.founded
      [] order = "significance" ->
            b.temple.significanceScore - a.temple.significanceScore
      [] OTHER -> b.score - a.score

\* the comparator of rankedTemples' sort, on two { temple, score } entries
rankComparator(order, a, b) ==
    CASE order = "oldest" -> a.temple.founded - b.temple.founded
      [] order = "newest" -> b.temple.founded - a.temple.founded
      [] order = "significance" ->
            b.temple.significanceScore - a.temple.significanceScore
      [] OTHER -> b.score - a.score

\* countComparator in ascending order
countComparator_ascending(a, b) == a[2] - b[2]

\* the comparator of the two insight sorts, on two [key, count] entries
countComparator(a, b) == b[2] - a[2]

\* sort() without a comparator: strings by code units
defaultComparator(a, b) ==
    IF stringLess(a, b) THEN -1 ELSE IF stringLess(b, a) THEN 1 ELSE 0

\* the comparator a sort call passes, named by cmp: "count", "default", or
\* the sort order of the ranking
compareFn(cmp, a, b) ==
    CASE cmp = "count" -> countComparator(a, b)
      [] cmp = "default" -> defaultComparator(a, b)
      [] OTHER -> rankComparator(cmp, a, b)

\* insertSorted of a sort that is not stable: x goes in front of the
\* elements it compares equal to
RECURSIVE insertSorted_unstable(_, _, _)
insertSorted_unstable(sorted, x, cmp) ==
    IF sorted = <<>> THEN <<x>>
    ELSE IF compareFn(cmp, Head(sorted), x) >= 0 THEN <<x>> \o sorted
    ELSE <<Head(sorted)>> \o insertSorted_unstable(Tail(sorted), x, cmp)

\* x put into the sorted array behind every element that does not compare
\* greater than it: elements that compare equal keep their order
RECURSIVE insertSorted(_, _, _)
insertSorted(sorted, x, cmp) ==
    IF sorted = <<>> THEN <<x>>
    ELSE IF compareFn(cmp, Head(sorted), x) > 0 THEN <<x>> \o sorted
    ELSE <<Head(sorted)>> \o insertSorted(Tail(sorted), x, cmp)

\* Array.prototype.sort, which is stable (ECMAScript 2019)
RECURSIVE arraySort(_, _)
arraySort(arr, cmp) ==
    IF arr = <<>> THEN <<>>
    ELSE insertSorted(arraySort(SubSeq(arr, 1, Len(arr) - 1), cmp),
                      arr[Len(arr)], cmp)

---------------------------------------------------------------------------
(* The facet option lists *)

regions ==
    <<ALL_OPTION>> \o
    distinctInOrder([i \in 1..Len(catalog) |-> catalog[i].region])

traditions ==
    <<ALL_OPTION>> \o
    distinctInOrder([i \in 1..Len(catalog) |-> catalog[i].tradition])

environments ==
    <<ALL_OPTION>> \o
    distinctInOrder([i \in 1..Len(catalog) |-> catalog[i].environment])

\* features collected from the highlights of the temples
features_fromHighlights ==
    <<ALL_OPTION>> \o
    arraySort(distinctInOrder(
                  flatten([i \in 1..Len(catalog) |-> catalog[i].highlights])),
              "default")

features ==
    <<ALL_OPTION>> \o
    arraySort(distinctInOrder(
                  flatten([i \in 1..Len(catalog) |-> catalog[i].features])),
              "default")

---------------------------------------------------------------------------
(* scoreTemple and matchesFilters *)

\* haystacks without the name
haystacks_withoutName(temple) ==
    toLowerCase(join(<<temple.city, temple.country,
                       temple.description,
                       join(temple.highlights, <<" ">>),
                       join(temple.features, <<" ">>)>>, <<" ">>))

\* the lower-cased text a search term is looked up in
haystacks(temple) ==
    toLowerCase(join(<<temple.name, temple.city, temple.country,
                       temple.description,
                       join(temple.highlights, <<" ">>),
                       join(temple.features, <<" ">>)>>, <<" ">>))

\* scoreTemple without the early return of the miss: a query found nowhere
\* earns no bonus and keeps the base score
scoreTemple_withoutMissBranch(temple, normalizedSearch) ==
    LET base == temple.significanceScore
    IN IF normalizedSearch = <<>> THEN 10 * base
       ELSE LET nameMatch ==
                    IF includes(toLowerCase(temple.name), normalizedSearch)
                    THEN 25 ELSE 0
                cityMatch ==
                    IF includes(toLowerCase(temple.city), normalizedSearch)
                    THEN 15 ELSE 0
                featureMatch ==
                    IF \E k \in 1..Len(temple.features) :
                           includes(toLowerCase(temple.features[k]),
                                    normalizedSearch)
                    THEN 10 ELSE 0
            IN 10 * (base + nameMatch + cityMatch + featureMatch)

\* the score in tenths
scoreTemple(temple, normalizedSearch) ==
    LET base == temple.significanceScore
    IN IF normalizedSearch = <<>> THEN 10 * base
       ELSE IF ~includes(haystacks(temple), normalizedSearch) THEN 7 * base
       ELSE LET nameMatch ==
                    IF includes(toLowerCase(temple.name), normalizedSearch)
                    THEN 25 ELSE 0
                cityMatch ==
                    IF includes(toLowerCase(temple.city), normalizedSearch)
                    THEN 15 ELSE 0
                featureMatch ==
                    IF \E k \in 1..Len(temple.features) :
                           includes(toLowerCase(temple.features[k]),
                                    normalizedSearch)
                    THEN 10 ELSE 0
            IN 10 * (base + nameMatch + cityMatch + featureMatch)

\* matchesFilters with the last two conditions joined by "or"
matchesFilters_featureOr(temple, options) ==
    LET regionMatch ==
            options.region = ALL_OPTION \/ temple.region = options.region
        traditionMatch ==
            options.tradition = ALL_OPTION
                \/ temple.tradition = options.tradition
        environmentMatch ==
            options.environment = ALL_OPTION
                \/ temple.environment = options.environment
        featureMatch ==
            options.feature = ALL_OPTION
                \/ \E k \in 1..Len(temple.features) :
                       temple.features[k] = options.feature
    IN regionMatch /\ traditionMatch /\ (environmentMatch \/ featureMatch)

matchesFilters(temple, options) ==
    LET regionMatch ==
            options.region = ALL_OPTION \/ temple.region = options.region
        traditionMatch ==
            options.tradition = ALL_OPTION
                \/ temple.tradition = options.tradition
        environmentMatch ==
            options.environment = ALL_OPTION
                \/ temple.environment = options.environment
        featureMatch ==
            options.feature = ALL_OPTION
                \/ \E k \in 1..Len(temple.features) :
                       temple.features[k] = options.feature
    IN regionMatch /\ traditionMatch /\ environmentMatch /\ featureMatch

---------------------------------------------------------------------------
(* The memoised values of a render *)

normalizedSearchOf(term) == toLowerCase(trim(term))

\* temples.map(...): every temple with its score, in catalog order
scoreStep(temples, normalizedSearch) ==
    [i \in 1..Len(temples) |->
        [temple |-> temples[i],
         score |-> scoreTemple(temples[i], normalizedSearch)]]

\* filterStep that also drops the entries the search penalised
filterStep_dropsMisses(entries, options) ==
    SelectSeq(entries,
              LAMBDA e : /\ matchesFilters(e.temple, options)
                         /\ e.score >= 10 * e.temple.significanceScore)

\* .filter(...): the entries whose temple passes the four selections
filterStep(entries, options) ==
    SelectSeq(entries, LAMBDA e : matchesFilters(e.temple, options))

\* .sort(...) by the sort order
sortStep(entries, order) == arraySort(entries, order)

computeRankedTemples(temples, term, options, order) ==
    sortStep(filterStep(scoreStep(temples, normalizedSearchOf(term)),
                        options),
             order)

\* the [key, count] entries of a tally, in the order the keys were first
\* added (Object.entries of string keys that are no array indices, and
\* Map.prototype.entries)
RECURSIVE tally(_)
tally(keys) ==
    IF keys = <<>> THEN <<>>
    ELSE LET front == tally(SubSeq(keys, 1, Len(keys) - 1))
             key == keys[Len(keys)]
         IN IF \E i \in 1..Len(front) : front[i][1] = key
            THEN [i \in 1..Len(front) |->
                     IF front[i][1] = key
                     THEN <<key, front[i][2] + 1>>
                     ELSE front[i]]
            ELSE Append(front, <<key, 1>>)

RECURSIVE sumFounded(_)
sumFounded(ranked) ==
    IF ranked = <<>> THEN 0
    ELSE Head(ranked).temple.founded + sumFounded(Tail(ranked))

\* a / b as a JavaScript number, rounded by Math.round (halves go up):
\* 0 / 0 is NaN, and Math.round(NaN) is NaN
roundedQuotient(a, b) ==
    IF b = 0
    THEN [isNaN |-> TRUE, value |-> 0]
    ELSE [isNaN |-> FALSE, value |-> (2 * a + b) \div (2 * b)]

mathMax(a, b) == IF a >= b THEN a ELSE b

\* the entry a sort by count puts first, or Undefined
topKey(entries) ==
    LET sorted == arraySort(entries, "count")
    IN IF sorted = <<>> THEN Undefined ELSE sorted[1][1]

computeInsights(ranked) ==
    LET uniqueCountries ==
            Cardinality({ranked[i].temple.country : i \in 1..Len(ranked)})
        topTraditions ==
            tally([i \in 1..Len(ranked) |-> ranked[i].temple.tradition])
        mostCommonTradition == topKey(topTraditions)
        averageFoundedYear ==
            roundedQuotient(sumFounded(ranked), mathMax(Len(ranked), 1))
        standoutFeature ==
            tally(flatten([i \in 1..Len(ranked) |->
                              ranked[i].temple.features]))
        featureName == topKey(standoutFeature)
    IN [uniqueCountries |-> uniqueCountries,
        mostCommonTradition |-> mostCommonTradition,
        averageFoundedYear |-> averageFoundedYear,
        standoutFeature |-> featureName]

computeActiveFilters(region, tradition, environment, feature) ==
    (IF region # ALL_OPTION
     THEN <<[label |-> "Region", value |-> region]>> ELSE <<>>)
    \o (IF tradition # ALL_OPTION
        THEN <<[label |-> "Tradition", value |-> tradition]>> ELSE <<>>)
    \o (IF environment # ALL_OPTION
        THEN <<[label |-> "Environment", value |-> environment]>> ELSE <<>>)
    \o (IF feature # ALL_OPTION
        THEN <<[label |-> "Highlight", value |-> feature]>> ELSE <<>>)

---------------------------------------------------------------------------
(* The catalog.  lib/data/temples is imported by the component; its records *)
(* have the fields of the Temple type.  The first two sample records are   *)
(* those of the end-to-end example; the third shares its founding year and *)
(* tradition with one of them and its significance score and a feature     *)
(* with the other.                                                         *)

AngkorWat ==
    [id |-> "angkor-wat",
     name |-> <<"A", "n", "g", "k", "o", "r", " ", "W", "a", "t">>,
     city |-> <<"S", "i", "e", "m", " ", "R", "e", "a", "p">>,
     country |-> <<"C", "a", "m", "b", "o", "d", "i", "a">>,
     description |-> <<"K", "h", "m", "e", "r">>,
     region |-> <<"S", "o", "u", "t", "h", "e", "a", "s", "t", " ", "A", "s", "i", "a">>,
     tradition |-> <<"H", "i", "n", "d", "u", "-", "B", "u", "d", "d", "h", "i", "s", "t">>,
     environment |-> <<"J", "u", "n", "g", "l", "e">>,
     founded |-> 1113,
     significanceScore |-> 95,
     highlights |-> <<<<"B", "a", "s", "-", "r", "e", "l", "i", "e", "f", "s">>>>,
     features |-> <<<<"U", "N", "E", "S", "C", "O", " ", "S", "i", "t", "e">>, <<"S", "u", "n", "r", "i", "s", "e", " ", "V", "i", "e", "w", "s">>>>]

Borobudur ==
    [id |-> "borobudur",
     name |-> <<"B", "o", "r", "o", "b", "u", "d", "u", "r">>,
     city |-> <<"M", "a", "g", "e", "l", "a", "n", "g">>,
     country |-> <<"I", "n", "d", "o", "n", "e", "s", "i", "a">>,
     description |-> <<"M", "a", "n", "d", "a", "l", "a">>,
     region |-> <<"S", "o", "u", "t", "h", "e", "a", "s", "t", " ", "A", "s", "i", "a">>,
     tradition |-> <<"B", "u", "d", "d", "h", "i", "s", "t">>,
     environment |-> <<"V", "o", "l", "c", "a", "n", "i", "c">>,
     founded |-> 800,
     significanceScore |-> 90,
     highlights |-> <<<<"S", "t", "u", "p", "a", "s">>>>,
     features |-> <<<<"U", "N", "E", "S", "C", "O", " ", "S", "i", "t", "e">>>>]

Todaiji ==
    [id |-> "todai-ji",
     name |-> <<"T", "o", "d", "a", "i", "-", "j", "i">>,
     city |-> <<"N", "a", "r", "a">>,
     country |-> <<"J", "a", "p", "a", "n">>,
     description |-> <<"D", "a", "i", "b", "u", "t", "s", "u">>,
     region |-> <<"E", "a", "s", "t", " ", "A", "s", "i", "a">>,
     tradition |-> <<"B", "u", "d", "d", "h", "i", "s", "t">>,
     environment |-> <<"U", "r", "b", "a", "n">>,
     founded |-> 800,
     significanceScore |-> 95,
     highlights |-> <<<<"G", "r", "e", "a", "t", " ", "h", "a", "l", "l">>>>,
     features |-> <<<<"S", "u", "n", "r", "i", "s", "e", " ", "V", "i", "e", "w", "s">>>>]

SamplePool == <<AngkorWat, Borobudur, Todaiji>>

\* the catalogs explored: every sequence of distinct sample records, of
\* one to MaxCatalog records (ids are unique, the catalog is not empty)
SampleCatalogs ==
    LET lengths == {n \in 1..MaxCatalog : n <= Len(SamplePool)}
        picks == UNION {[1..n -> 1..Len(SamplePool)] : n \in lengths}
        injective == {f \in picks :
                         \A i, j \in DOMAIN f : f[i] = f[j] => i = j}
    IN {[i \in DOMAIN f |-> SamplePool[f[i]]] : f \in injective}

\* the texts typed into the search box under Spec: nothing, a padded name
\* in mixed case, part of a feature in upper case, and a miss
SampleSearchTerms ==
    {<<>>,
     <<" ", "A", "n", "g", "k", "o", "r", " ">>,
     <<"S", "I", "T", "E">>,
     <<"z", "e", "n">>}

\* the characters of the generated strings of SpecScore
ScoreAlphabet == {"a", "B", " "}

\* the strings of at most n generated characters
stringsUpTo(n) == UNION {[1..k -> ScoreAlphabet] : k \in 0..n}

\* the one-temple catalogs explored by SpecScore: every name of one to
\* MaxLen characters, with a city and a feature list that the name may or
\* may not share text with
ScoreTemples ==
    {[id |-> "generated",
      name |-> name,
      city |-> city,
      country |-> <<"B">>,
      description |-> <<"a", "a">>,
      region |-> <<"R">>,
      tradition |-> <<"T">>,
      environment |-> <<"E">>,
      founded |-> 800,
      significanceScore |-> 90,
      highlights |-> <<<<"B">>>>,
      features |-> feats] :
        name \in stringsUpTo(MaxLen) \ {<<>>},
        city \in {<<"a">>, <<"B", "a">>},
        feats \in {<<>>, <<<<"a", " ", "B">>, <<"B", "B">>>>}}

---------------------------------------------------------------------------
(* The component *)

optionsOf(region, tradition, environment, feature) ==
    [region |-> region, tradition |-> tradition,
     feature |-> feature, environment |-> environment]

\* what a render derives from the state it is given
Render ==
    /\ rankedTemples' =
           computeRankedTemples(catalog', searchTerm',
                                optionsOf(selectedRegion', selectedTradition',
                                          selectedEnvironment',
                                          selectedFeature'),
                                sortOrder')
    /\ insights' = computeInsights(rankedTemples')
    /\ activeFilters' =
           computeActiveFilters(selectedRegion', selectedTradition',
                                selectedEnvironment', selectedFeature')

\* the first render over a catalog
Mounted(temples) ==
    /\ catalog = temples
    /\ searchTerm = <<>>
    /\ selectedRegion = ALL_OPTION
    /\ selectedTradition = ALL_OPTION
    /\ selectedEnvironment = ALL_OPTION
    /\ selectedFeature = ALL_OPTION
    /\ sortOrder = "relevance"
    /\ rankedTemples =
           computeRankedTemples(temples, <<>>,
                                optionsOf(ALL_OPTION, ALL_OPTION, ALL_OPTION,
                                          ALL_OPTION),
                                "relevance")
    /\ insights = computeInsights(rankedTemples)
    /\ activeFilters =
           computeActiveFilters(ALL_OPTION, ALL_OPTION, ALL_OPTION,
                                ALL_OPTION)

Init == \E temples \in SampleCatalogs : Mounted(temples)

\* the Reset filters button: disabled={!activeFilters.length}
resetDisabled == Len(activeFilters) = 0

\* the search box: onChange sets the text typed
SetSearchTerm(value) ==
    /\ searchTerm' = value
    /\ UNCHANGED <<catalog, selectedRegion, selectedTradition,
                   selectedEnvironment, selectedFeature, sortOrder>>
    /\ Render

\* the Region select: onChange sets the value of the option chosen
SetSelectedRegion(value) ==
    /\ selectedRegion' = value
    /\ UNCHANGED <<catalog, searchTerm, selectedTradition,
                   selectedEnvironment, selectedFeature, sortOrder>>
    /\ Render

SetSelectedTradition(value) ==
    /\ selectedTradition' = value
    /\ UNCHANGED <<catalog, searchTerm, selectedRegion,
                   selectedEnvironment, selectedFeature, sortOrder>>
    /\ Render

SetSelectedEnvironment(value) ==
    /\ selectedEnvironment' = value
    /\ UNCHANGED <<catalog, searchTerm, selectedRegion, selectedTradition,
                   selectedFeature, sortOrder>>
    /\ Render

SetSelectedFeature(value) ==
    /\ selectedFeature' = value
    /\ UNCHANGED <<catalog, searchTerm, selectedRegion, selectedTradition,
                   selectedEnvironment, sortOrder>>
    /\ Render

\* the Sort by select: its four options are written out in the markup
SetSortOrder(value) ==
    /\ sortOrder' = value
    /\ UNCHANGED <<catalog, searchTerm, selectedRegion, selectedTradition,
                   selectedEnvironment, selectedFeature>>
    /\ Render

\* clearFilters without the reset of the feature selection
clearFilters_keepsFeature ==
    /\ ~resetDisabled
    /\ selectedRegion' = ALL_OPTION
    /\ selectedTradition' = ALL_OPTION
    /\ selectedEnvironment' = ALL_OPTION
    /\ UNCHANGED <<catalog, searchTerm, sortOrder, selectedFeature>>
    /\ Render

\* the Reset filters button, which takes no click while it is disabled
clearFilters ==
    /\ ~resetDisabled
    /\ selectedRegion' = ALL_OPTION
    /\ selectedTradition' = ALL_OPTION
    /\ selectedEnvironment' = ALL_OPTION
    /\ selectedFeature' = ALL_OPTION
    /\ UNCHANGED <<catalog, searchTerm, sortOrder>>
    /\ Render

\* the values of the <option> elements a select renders
optionValues(list) == {list[i] : i \in 1..Len(list)}

Next ==
    \/ \E value \in SampleSearchTerms : SetSearchTerm(value)
    \/ \E value \in optionValues(regions) : SetSelectedRegion(value)
    \/ \E value \in optionValues(traditions) : SetSelectedTradition(value)
    \/ \E value \in optionValues(environments) :
           SetSelectedEnvironment(value)
    \/ \E value \in optionValues(features) : SetSelectedFeature(value)
    \/ \E value \in SortOptions : SetSortOrder(value)
    \/ clearFilters

Spec == Init /\ [][Next]_vars

\* scoreTemple over generated names and typed texts: one generated temple,
\* no selection, and every text of at most MaxLen characters typed
InitScore == \E temple \in ScoreTemples : Mounted(<<temple>>)

NextScore == \E value \in stringsUpTo(MaxLen) : SetSearchTerm(value)

SpecScore == InitScore /\ [][NextScore]_vars

---------------------------------------------------------------------------
(* What the properties below speak of *)

normalizedSearch == normalizedSearchOf(searchTerm)

currentOptions ==
    optionsOf(selectedRegion, selectedTradition, selectedEnvironment,
              selectedFeature)

reverse(seq) == [i \in 1..Len(seq) |-> seq[Len(seq) + 1 - i]]

\* the position of a temple in the catalog (the records are distinct)
catalogIndex(temple) == CHOOSE i \in 1..Len(catalog) : catalog[i] = temple

\* the number of times a temple occurs in a result list
occurrences(ranked, temple) ==
    Cardinality({k \in 1..Len(ranked) : ranked[k].temple = temple})

regionOk(temple) ==
    selectedRegion = ALL_OPTION \/ temple.region = selectedRegion

traditionOk(temple) ==
    selectedTradition = ALL_OPTION \/ temple.tradition = selectedTradition

environmentOk(temple) ==
    selectedEnvironment = ALL_OPTION
        \/ temple.environment = selectedEnvironment

featureOk(temple) ==
    selectedFeature = ALL_OPTION
        \/ selectedFeature \in
               {temple.features[k] : k \in 1..Len(temple.features)}

\* C1: under the current four selections a catalog temple passes
\* matchesFilters exactly when every dimension, judged from its own
\* selection alone, is "All" or equals (for feature: contains) the selection.
C1_MatchesFiltersConjunctive ==
    \A i \in 1..Len(catalog) :
        matchesFilters(catalog[i], currentOptions)
            <=> (/\ regionOk(catalog[i])
                 /\ traditionOk(catalog[i])
                 /\ environmentOk(catalog[i])
                 /\ featureOk(catalog[i]))

\* four selections set, and a temple that passes three of them and is
\* rejected for the fourth
C1_Witness ==
    /\ selectedRegion # ALL_OPTION
    /\ selectedTradition # ALL_OPTION
    /\ selectedEnvironment # ALL_OPTION
    /\ selectedFeature # ALL_OPTION
    /\ \E i \in 1..Len(catalog) :
           /\ regionOk(catalog[i])
           /\ traditionOk(catalog[i])
           /\ environmentOk(catalog[i])
           /\ ~featureOk(catalog[i])
           /\ ~matchesFilters(catalog[i], currentOptions)

\* C2: whatever was typed and whichever sort order is chosen, rankedTemples
\* holds exactly the catalog temples that pass matchesFilters, each once.
C2_SearchNeverExcludes ==
    LET passing ==
            {i \in 1..Len(catalog) :
                matchesFilters(catalog[i], currentOptions)}
    IN /\ Len(rankedTemples) = Cardinality(passing)
       /\ \A i \in passing : occurrences(rankedTemples, catalog[i]) = 1
       /\ \A k \in 1..Len(rankedTemples) :
              \E i \in passing : rankedTemples[k].temple = catalog[i]

\* a search term that no temple contains, a selection that drops a temple,
\* a sort order other than the default, and every survivor still listed
C2_Witness ==
    /\ normalizedSearch # <<>>
    /\ \A i \in 1..Len(catalog) :
           ~includes(haystacks(catalog[i]), normalizedSearch)
    /\ sortOrder # "relevance"
    /\ selectedRegion # ALL_OPTION
    /\ rankedTemples # <<>>
    /\ Len(rankedTemples) < Len(catalog)
    /\ \A k \in 1..Len(rankedTemples) :
           rankedTemples[k].score
               = 7 * rankedTemples[k].temple.significanceScore

\* C3: a non-empty normalized query found in the lower-cased name scores at
\* least significanceScore + 25 (in tenths), so it is never penalised.
C3_NameMatchBonus ==
    \A k \in 1..Len(rankedTemples) :
        LET temple == rankedTemples[k].temple
        IN (/\ normalizedSearch # <<>>
            /\ includes(toLowerCase(temple.name), normalizedSearch))
               => rankedTemples[k].score
                      >= 10 * (temple.significanceScore + 25)

\* a typed text that differs from its normalized form, found in the name
\* only, and one found in name, city and a feature (+50)
C3_Witness ==
    /\ normalizedSearch # <<>>
    /\ normalizedSearch # searchTerm
    /\ \E k \in 1..Len(rankedTemples) :
           LET temple == rankedTemples[k].temple
           IN /\ includes(toLowerCase(temple.name), normalizedSearch)
              /\ ~includes(toLowerCase(temple.city), normalizedSearch)
              /\ rankedTemples[k].score
                     = 10 * (temple.significanceScore + 25)

\* name, city and feature all contain the query: the three bonuses add up
C3_WitnessAllBonuses ==
    /\ normalizedSearch # <<>>
    /\ \E k \in 1..Len(rankedTemples) :
           LET temple == rankedTemples[k].temple
           IN /\ includes(toLowerCase(temple.name), normalizedSearch)
              /\ rankedTemples[k].score
                     = 10 * (temple.significanceScore + 50)

\* C4: a non-empty normalized query that does not occur in the combined
\* lower-cased text scores significanceScore * 0.7 exactly (7 tenths of it).
C4_MissPenalty ==
    \A k \in 1..Len(rankedTemples) :
        LET temple == rankedTemples[k].temple
        IN (/\ normalizedSearch # <<>>
            /\ ~includes(haystacks(temple), normalizedSearch))
               => rankedTemples[k].score = 7 * temple.significanceScore

\* a typed text, trimmed and lower-cased to something the temple lacks
C4_Witness ==
    /\ normalizedSearch # <<>>
    /\ normalizedSearch # searchTerm
    /\ \E k \in 1..Len(rankedTemples) :
           LET temple == rankedTemples[k].temple
           IN /\ ~includes(haystacks(temple), normalizedSearch)
              /\ rankedTemples[k].score = 7 * temple.significanceScore
              /\ rankedTemples[k].score < 10 * temple.significanceScore

\* C5: under sortOrder relevance the scores do not increase along
\* rankedTemples, and temples of equal score stand in catalog order.
C5_RelevanceStable ==
    sortOrder = "relevance" =>
        \A i, j \in 1..Len(rankedTemples) :
            i < j =>
                /\ rankedTemples[i].score >= rankedTemples[j].score
                /\ rankedTemples[i].score = rankedTemples[j].score
                       => catalogIndex(rankedTemples[i].temple)
                              < catalogIndex(rankedTemples[j].temple)

\* two temples of equal score after a search, and a list that is not in
\* catalog order
C5_Witness ==
    /\ sortOrder = "relevance"
    /\ normalizedSearch # <<>>
    /\ Len(rankedTemples) >= 2
    /\ rankedTemples[1].score = rankedTemples[2].score
    /\ rankedTemples[1].temple.id # rankedTemples[2].temple.id

\* a relevance order that differs from the catalog order
C5_WitnessReordered ==
    /\ sortOrder = "relevance"
    /\ Len(rankedTemples) >= 2
    /\ rankedTemples[1].score > rankedTemples[2].score
    /\ catalogIndex(rankedTemples[1].temple)
           > catalogIndex(rankedTemples[2].temple)

\* the list the same state gives under sort order oldest
oldestTemples ==
    computeRankedTemples(catalog, searchTerm, currentOptions, "oldest")

foundedDistinct(ranked) ==
    \A i, j \in 1..Len(ranked) :
        ranked[i].temple.founded = ranked[j].temple.founded => i = j

\* C6 as stated: the list under newest is the reverse of the list under
\* oldest, also when retained temples share a founded year.
C6_OldestReversedIsNewest ==
    sortOrder = "newest" => rankedTemples = reverse(oldestTemples)

\* C6 as amended: the list under newest holds the elements of the list
\* under oldest, its founded years are those of the reversed oldest list,
\* temples sharing a founded year stand in catalog order in both, and the
\* two lists are exact reverses when the founded years are distinct.
C6_NewestReversesDistinctYears ==
    sortOrder = "newest" =>
        /\ Len(rankedTemples) = Len(oldestTemples)
        /\ \A k \in 1..Len(oldestTemples) :
               occurrences(rankedTemples, oldestTemples[k].temple) = 1
        /\ \A k \in 1..Len(rankedTemples) :
               rankedTemples[k].temple.founded
                   = reverse(oldestTemples)[k].temple.founded
        /\ \A i, j \in 1..Len(rankedTemples) :
               (/\ i < j
                /\ rankedTemples[i].temple.founded
                       = rankedTemples[j].temple.founded)
                   => catalogIndex(rankedTemples[i].temple)
                          < catalogIndex(rankedTemples[j].temple)
        /\ \A i, j \in 1..Len(oldestTemples) :
               (/\ i < j
                /\ oldestTemples[i].temple.founded
                       = oldestTemples[j].temple.founded)
                   => catalogIndex(oldestTemples[i].temple)
                          < catalogIndex(oldestTemples[j].temple)
        /\ foundedDistinct(rankedTemples)
               => rankedTemples = reverse(oldestTemples)

\* newest first over two temples of different years, after a search
C6_Witness ==
    /\ sortOrder = "newest"
    /\ normalizedSearch # <<>>
    /\ Len(rankedTemples) >= 2
    /\ foundedDistinct(rankedTemples)
    /\ rankedTemples[1].temple.founded > rankedTemples[2].temple.founded
    /\ rankedTemples = reverse(oldestTemples)

\* C7 as stated: with no result, the insights hold the unavailable value
\* for mostCommonTradition, averageFoundedYear (NaN, which the card shows
\* as the dash) and standoutFeature, and 0 for uniqueCountries.
C7_EmptyInsightsUnavailable ==
    rankedTemples = <<>> =>
        /\ insights.uniqueCountries = 0
        /\ insights.mostCommonTradition = Undefined
        /\ insights.standoutFeature = Undefined
        /\ insights.averageFoundedYear.isNaN

\* the keys of the two tallies, in the order the reduce meets them
traditionKeys ==
    [k \in 1..Len(rankedTemples) |-> rankedTemples[k].temple.tradition]

featureKeys ==
    flatten([k \in 1..Len(rankedTemples) |->
                rankedTemples[k].temple.features])

countOf(keys, key) == Cardinality({p \in 1..Len(keys) : keys[p] = key})

firstOf(keys, key) == CHOOSE p \in 1..Len(keys) :
    keys[p] = key /\ \A q \in 1..(p - 1) : keys[q] # key

\* key occurs most often in keys, and first among those that occur as often
firstMostCommon(keys, key) ==
    /\ \E p \in 1..Len(keys) : keys[p] = key
    /\ \A q \in 1..Len(keys) :
           \/ countOf(keys, keys[q]) < countOf(keys, key)
           \/ /\ countOf(keys, keys[q]) = countOf(keys, key)
              /\ firstOf(keys, key) <= firstOf(keys, keys[q])

\* C8: over a non-empty result list mostCommonTradition is the tradition
\* of maximal count whose first occurrence in the list is earliest, and
\* standoutFeature the same over the concatenated feature lists.
C8_FirstMostCommon ==
    rankedTemples # <<>> =>
        /\ firstMostCommon(traditionKeys, insights.mostCommonTradition)
        /\ featureKeys # <<>>
               => firstMostCommon(featureKeys, insights.standoutFeature)

\* two traditions tie and the list is not in catalog order, so the winner
\* is the tradition of the second catalog temple; the most frequent
\* feature is not the first one met
C8_Witness ==
    /\ Len(rankedTemples) = 2
    /\ Len(catalog) = 2
    /\ rankedTemples[1].temple = catalog[2]
    /\ catalog[1].tradition # catalog[2].tradition
    /\ insights.mostCommonTradition = catalog[2].tradition
    /\ featureKeys # <<>>
    /\ insights.standoutFeature # featureKeys[1]
    /\ countOf(featureKeys, insights.standoutFeature) = 2

\* C9: every selection is "All" or a value of its dimension that occurs in
\* the catalog, and sortOrder is one of the four sort options.
C9_SelectionsFromCatalog ==
    /\ selectedRegion \in
           {ALL_OPTION} \cup {catalog[i].region : i \in 1..Len(catalog)}
    /\ selectedTradition \in
           {ALL_OPTION} \cup {catalog[i].tradition : i \in 1..Len(catalog)}
    /\ selectedEnvironment \in
           {ALL_OPTION}
               \cup {catalog[i].environment : i \in 1..Len(catalog)}
    /\ selectedFeature \in
           {ALL_OPTION}
               \cup UNION {{catalog[i].features[k] :
                               k \in 1..Len(catalog[i].features)} :
                              i \in 1..Len(catalog)}
    /\ sortOrder \in {"relevance", "oldest", "newest", "significance"}

\* every select moved off its first option, and a text typed
C9_Witness ==
    /\ selectedRegion # ALL_OPTION
    /\ selectedTradition # ALL_OPTION
    /\ selectedEnvironment # ALL_OPTION
    /\ selectedFeature # ALL_OPTION
    /\ sortOrder = "significance"
    /\ searchTerm # <<>>

anySelection ==
    \/ selectedRegion # ALL_OPTION
    \/ selectedTradition # ALL_OPTION
    \/ selectedEnvironment # ALL_OPTION
    \/ selectedFeature # ALL_OPTION

\* C10: the Reset filters button is enabled exactly when a selection is
\* not "All"; a clearFilters step sets the four selections to "All", keeps
\* searchTerm and sortOrder, and leaves every catalog temple listed once.
C10_ClearFilters ==
    /\ [](~resetDisabled <=> anySelection)
    /\ [][clearFilters =>
            /\ selectedRegion' = ALL_OPTION
            /\ selectedTradition' = ALL_OPTION
            /\ selectedEnvironment' = ALL_OPTION
            /\ selectedFeature' = ALL_OPTION
            /\ searchTerm' = searchTerm
            /\ sortOrder' = sortOrder
            /\ Len(rankedTemples') = Len(catalog)
            /\ \A i \in 1..Len(catalog) :
                   occurrences(rankedTemples', catalog[i]) = 1]_vars

\* the button enabled with four selections set that leave no result, a
\* text typed and a sort order chosen: the state a reset starts from
C10_Witness ==
    /\ ~resetDisabled
    /\ Len(activeFilters) = 4
    /\ rankedTemples = <<>>
    /\ searchTerm # <<>>
    /\ sortOrder # "relevance"

====
